---- MODULE Spec2Model ----
(***************************************************************************)
(* Session & identity lifecycle of the chat backend:                       *)
(*   backend/session_services.py  ChatSessionService                       *)
(*   backend/auth_service.py      AuthService                              *)
(* The three MongoDB collections are sets of documents.  Every store call  *)
(* (find_one, insert_one, update_one, delete_many, ...) is one atomic      *)
(* step; a handler that makes several store calls is a sequence of steps   *)
(* of one request, and requests of different workers interleave between    *)
(* store calls.                                                            *)
(***************************************************************************)
EXTENDS Integers, Sequences, FiniteSets, TLC

VARIABLES
    sessions,   \* db.sessions: set of session documents
    messages,   \* db.messages: set of message documents
    users,      \* db.users: set of user documents
    now,        \* the value datetime.utcnow() returns
    nextSid,    \* next fresh uuid4 for a session_id
    nextMid,    \* next fresh uuid4 for a message_id
    nextUid,    \* next fresh uuid4 for a user_id
    pc,         \* per request worker: the call in progress and where it stands
    result,     \* per request worker: how its last completed call ended
    pre,        \* history: the collections when the last call began; did its store fail
    run,        \* history: the create + append run in progress (sequential runs)
    reused,     \* history: per anonymous id, what get_or_create last returned, how often
    deleted,    \* history: session ids whose delete returned True
    handed,     \* history: per anonymous id, the session ids create_session_smart returned
    trail       \* history: per worker, what its chat prompt request did so far

store == <<sessions, messages, users>>
ids == <<nextSid, nextMid, nextUid>>
ghost == <<pre, run, reused, deleted, handed, trail>>
vars == <<sessions, messages, users, now, nextSid, nextMid, nextUid, pc, result,
          pre, run, reused, deleted, handed, trail>>

(***************************************************************************)
(* Bounds of the model.                                                    *)
(***************************************************************************)
MaxSessions == 2    \* session documents ever inserted
MaxMessages == 2    \* message documents ever inserted
MaxUsers == 2       \* user documents ever inserted
MaxTime == 1        \* clock readings 0..MaxTime
MaxLimit == 2       \* limit arguments 0..MaxLimit

Procs == {1, 2}

(***************************************************************************)
(* Identities.  A user id is a string; the only thing the code ever asks   *)
(* of it is startswith("anon_"), so an id is <<prefix, rest>>.             *)
(***************************************************************************)
AnonIds == {<<"anon_", 1>>, <<"anon_", 2>>}
IssuedUids == {<<"uuid", k>> : k \in 1..(nextUid - 1)}
UserIds == AnonIds \cup IssuedUids
StartsWithAnon(user_id) == user_id[1] = "anon_"

\* anonymous_user_id left at its default None, falsy in `if anonymous_user_id:`
NoUser == <<>>
\* Python values a caller can tell apart by type: None and an int
None == [type |-> "NoneType"]
PyInt(n) == [type |-> "int", value |-> n]
Emails == {"a@x.com", "b@x.com"}
Passwords == {"p1", "p2"}
MessageTypes == {"user", "ai"}
\* session ids a client can name: the ones issued so far; 0 is never issued
IssuedSids == 1..(nextSid - 1)
\* a user id without the anonymous marker that belongs to no user document
OtherIds == {<<"user_", 1>>}

Idle == [op |-> "idle", at |-> "idle", a |-> <<>>, l |-> <<>>]
NoResult == [op |-> "none", a |-> <<>>, kind |-> "none", val |-> <<>>, printed |-> <<>>]
NoRun == [session_id |-> 0, n |-> 0, message_ids |-> {}]
NoReuse == [session_id |-> 0, calls |-> 0]

\* a call about to start: its first store call carries the name of the handler
Frame(op, a) == [op |-> op, at |-> op, a |-> a, l |-> <<>>]

(***************************************************************************)
(* Control: a step either moves the call on, returns or raises.            *)
(***************************************************************************)
Goto(p, f, at, l) ==
    /\ pc' = [pc EXCEPT ![p] = [op |-> f.op, at |-> at, a |-> f.a, l |-> l]]
    /\ result' = [result EXCEPT ![p] = NoResult]

ReturnPrinted(p, f, val, printed) ==
    /\ pc' = [pc EXCEPT ![p] = Idle]
    /\ result' = [result EXCEPT ![p] =
           [op |-> f.op, a |-> f.a, kind |-> "return", val |-> val, printed |-> printed]]

Return(p, f, val) == ReturnPrinted(p, f, val, <<>>)

Raise(p, f, exc) ==
    /\ pc' = [pc EXCEPT ![p] = Idle]
    /\ result' = [result EXCEPT ![p] =
           [op |-> f.op, a |-> f.a, kind |-> "raise", val |-> exc, printed |-> <<>>]]

(***************************************************************************)
(* Queries.  A find without a sort returns matches in an order MongoDB     *)
(* does not define, so find_one and limit(1) yield any one match; a sort   *)
(* leaves the order of equal keys open.                                    *)
(***************************************************************************)
ActiveSessionsOf(user_id) ==
    {s \in sessions : s.user_id = user_id /\ s.is_active}

MessagesOf(session_id) == {m \in messages : m.session_id = session_id}

Orderings(S) ==
    {q \in [1..Cardinality(S) -> S] : \A i, j \in 1..Cardinality(S) : i # j => q[i] # q[j]}

\* .sort("timestamp", 1)
SortedByTimestamp(S) ==
    {q \in Orderings(S) :
        \A i, j \in 1..Cardinality(S) : i < j => q[i].timestamp <= q[j].timestamp}

\* .sort("updated_at", -1)
SortedByUpdatedAtDesc(S) ==
    {q \in Orderings(S) :
        \A i, j \in 1..Cardinality(S) : i < j => q[i].updated_at >= q[j].updated_at}

\* cursor.limit(n): the first n documents; limit(0) is no limit
Limit(q, n) == IF n = 0 \/ n >= Len(q) THEN q ELSE SubSeq(q, 1, n)

(***************************************************************************)
(* Store primitives.  session_id, message_id and user_id are fresh uuid4   *)
(* values, so a filter on one of them matches at most one document.        *)
(***************************************************************************)
\* create_session: the document inserted
NewSession(session_id, user_id) ==
    [session_id |-> session_id, user_id |-> user_id, title |-> "New Chat",
     updated_at |-> now, message_count |-> 0, is_active |-> TRUE]

\* add_message: the document inserted
NewMessage(message_id, session_id, message_type) ==
    [message_id |-> message_id, session_id |-> session_id, type |-> message_type,
     timestamp |-> now]

\* a patch that sets the counter instead of incrementing it
MessagePatch_SetsOne(s) == [s EXCEPT !.updated_at = now, !.message_count = 1]

\* add_message: {"$set": {"updated_at": now}, "$inc": {"message_count": 1}}
MessagePatch(s) == [s EXCEPT !.updated_at = now, !.message_count = @ + 1]

\* a reset that forgets the counter
ResetPatch_KeepsCount(s) == [s EXCEPT !.title = "New Chat", !.updated_at = now]

\* replace_anonymous_session_content: the "$set" of title, updated_at, message_count
ResetPatch(s) == [s EXCEPT !.title = "New Chat", !.updated_at = now, !.message_count = 0]

\* datetime.isoformat()
isoformat(t) == <<"iso", t>>

\* get_user_sessions: the frontend-friendly format of one document
Summary(doc) ==
    [session_id |-> doc.session_id, title |-> doc.title,
     updated_at |-> isoformat(doc.updated_at), message_count |-> doc.message_count]

(***************************************************************************)
(* ChatSessionService.  Each action is one store call of the handler named *)
(* by the frame f of worker p, with the code up to the next store call.    *)
(***************************************************************************)
\* create_user: the document inserted carries no password_hash
create_user(p, f) ==
    /\ nextUid <= MaxUsers
    /\ users' = users \cup {[user_id |-> <<"uuid", nextUid>>, email |-> f.a.email,
                              last_active |-> now]}
    /\ nextUid' = nextUid + 1
    /\ Return(p, f, <<"uuid", nextUid>>)
    /\ UNCHANGED <<sessions, messages, now, nextSid, nextMid>>

create_session(p, f) ==
    /\ nextSid <= MaxSessions
    /\ sessions' = sessions \cup {NewSession(nextSid, f.a.user_id)}
    /\ nextSid' = nextSid + 1
    /\ Return(p, f, nextSid)
    /\ UNCHANGED <<messages, users, now, nextMid, nextUid>>

\* get_user_sessions: the lists it may return
\* a listing that forgets the owner in its filter
get_user_sessions_AnyOwner(user_id, limit) ==
    {[i \in 1..Len(Limit(q, 1)) |-> Summary(q[i])] :
         q \in Orderings({s \in sessions : s.is_active})}

get_user_sessions(user_id, limit) ==
    IF StartsWithAnon(user_id)
    THEN {[i \in 1..Len(Limit(q, 1)) |-> Summary(q[i])] :
              q \in Orderings(ActiveSessionsOf(user_id))}
    ELSE {[i \in 1..Len(Limit(q, limit)) |-> Summary(q[i])] :
              q \in SortedByUpdatedAtDesc(ActiveSessionsOf(user_id))}

get_user_sessions_call(p, f) ==
    /\ \E sessions_list \in get_user_sessions(f.a.user_id, f.a.limit) :
           Return(p, f, sessions_list)
    /\ UNCHANGED <<store, now, ids>>

add_message(p, f) ==
    /\ nextMid <= MaxMessages
    /\ messages' = messages \cup {NewMessage(nextMid, f.a.session_id, f.a.message_type)}
    /\ nextMid' = nextMid + 1
    /\ Goto(p, f, "add_message_update", [message_id |-> nextMid])
    /\ UNCHANGED <<sessions, users, now, nextSid, nextUid>>

add_message_update(p, f) ==
    /\ sessions' = {IF s.session_id = f.a.session_id THEN MessagePatch(s) ELSE s : s \in sessions}
    /\ Return(p, f, f.l.message_id)
    /\ UNCHANGED <<messages, users, now, ids>>

\* get_session_messages: the lists it may return
get_session_messages(session_id, limit) ==
    {Limit(q, limit) : q \in SortedByTimestamp(MessagesOf(session_id))}

get_session_messages_call(p, f) ==
    /\ \E messages_list \in get_session_messages(f.a.session_id, f.a.limit) :
           Return(p, f, messages_list)
    /\ UNCHANGED <<store, now, ids>>

\* a delete that removes the session document before the messages
delete_session_DocFirst(p, f) ==
    /\ sessions' = {s \in sessions : s.session_id # f.a.session_id}
    /\ Goto(p, f, "delete_session_doc", <<>>)
    /\ UNCHANGED <<messages, users, now, ids>>

delete_session(p, f) ==
    /\ messages' = messages \ MessagesOf(f.a.session_id)
    /\ Goto(p, f, "delete_session_doc", <<>>)
    /\ UNCHANGED <<sessions, users, now, ids>>

\* a delete that reports the session removed and leaves it in place
delete_session_doc_KeepsDoc(p, f) ==
    /\ Return(p, f, \E s \in sessions : s.session_id = f.a.session_id)
    /\ UNCHANGED <<store, now, ids>>

\* a delete that hides the session from the listings and keeps the document
delete_session_doc_SoftDeletes(p, f) ==
    LET hit == {s \in sessions : s.session_id = f.a.session_id} IN
    /\ sessions' = (sessions \ hit) \cup {[s EXCEPT !.is_active = FALSE] : s \in hit}
    /\ Return(p, f, Cardinality(hit) > 0)
    /\ UNCHANGED <<messages, users, now, ids>>

delete_session_doc(p, f) ==
    LET hit == {s \in sessions : s.session_id = f.a.session_id} IN
    /\ sessions' = sessions \ hit
    /\ Return(p, f, Cardinality(hit) > 0)
    /\ UNCHANGED <<messages, users, now, ids>>

get_or_create_anonymous_session(p, f) ==
    /\ \/ \E existing_session \in ActiveSessionsOf(f.a.user_id) :
              Return(p, f, existing_session.session_id)
       \/ /\ ActiveSessionsOf(f.a.user_id) = {}
          /\ Goto(p, f, "create_session", <<>>)
    /\ UNCHANGED <<store, now, ids>>

replace_anonymous_session_content(p, f) ==
    /\ \/ \E existing_session \in ActiveSessionsOf(f.a.user_id) :
              Goto(p, f, "replace_delete", [session_id |-> existing_session.session_id])
       \/ /\ ActiveSessionsOf(f.a.user_id) = {}
          /\ Goto(p, f, "create_session", <<>>)
    /\ UNCHANGED <<store, now, ids>>

replace_delete(p, f) ==
    /\ messages' = messages \ MessagesOf(f.l.session_id)
    /\ Goto(p, f, "replace_update", f.l)
    /\ UNCHANGED <<sessions, users, now, ids>>

replace_update(p, f) ==
    /\ sessions' = {IF s.session_id = f.l.session_id THEN ResetPatch(s) ELSE s : s \in sessions}
    /\ Return(p, f, f.l.session_id)
    /\ UNCHANGED <<messages, users, now, ids>>

\* a dispatch that takes the registered branch for every id
create_session_smart_AlwaysCreates(p, f) == create_session(p, f)

\* create_session_smart: the dispatch on the anonymous marker, then the first
\* store call of the branch taken
create_session_smart(p, f) ==
    IF StartsWithAnon(f.a.user_id) THEN replace_anonymous_session_content(p, f) ELSE create_session(p, f)

(***************************************************************************)
(* AuthService.                                                            *)
(***************************************************************************)
\* pwd_context.hash: a salted one-way hash, known only by what verify accepts
hash_password(password) == <<"bcrypt", password>>

verify_password(plain_password, hashed_password) ==
    hashed_password = hash_password(plain_password)

\* the signed payload; its lifetime plays no part here
create_jwt_token(user_id, email) == [user_id |-> user_id, email |-> email, iat |-> now]

\* the dict register_user and login_user return
AuthResult(user_id, email) ==
    [user_id |-> user_id, email |-> email, token |-> create_jwt_token(user_id, email),
     user_type |-> "registered"]

\* register_user: the document inserted
NewUser(user_id, email, password) ==
    [user_id |-> user_id, email |-> email, password_hash |-> hash_password(password),
     last_active |-> now]

\* a patch that leaves the owner as it was
ReparentPatch_KeepsOwner(s, new_user_id) == s

\* a migration that also stamps the sessions it moves
ReparentPatch_TouchesUpdatedAt(s, new_user_id) ==
    [s EXCEPT !.user_id = new_user_id, !.updated_at = now]

\* migrate_anonymous_sessions: {"$set": {"user_id": new_user_id}}
ReparentPatch(s, new_user_id) == [s EXCEPT !.user_id = new_user_id]

\* a migration that hands result.modified_count back
MigrateReturn_Count(modified_count) == PyInt(modified_count)

\* migrate_anonymous_sessions has no return statement
MigrateReturn(modified_count) == None

\* a registration that migrates the anonymous id onto itself
MigrateArgs_OntoItself(f) ==
    [user_id |-> f.l.user_id, anonymous_user_id |-> f.a.anonymous_user_id,
     new_user_id |-> f.a.anonymous_user_id]

\* the ids under which register_user or a direct caller runs the migration
MigrateArgs(f) ==
    IF f.op = "register_user"
    THEN [user_id |-> f.l.user_id, anonymous_user_id |-> f.a.anonymous_user_id,
          new_user_id |-> f.l.user_id]
    ELSE [user_id |-> NoUser, anonymous_user_id |-> f.a.anonymous_user_id,
          new_user_id |-> f.a.new_user_id]

\* a registration that does not look the email up
register_user_NoLookup(p, f) ==
    /\ Goto(p, f, "register_insert", <<>>)
    /\ UNCHANGED <<store, now, ids>>

register_user(p, f) ==
    /\ IF \E u \in users : u.email = f.a.email
       THEN Raise(p, f, "ValueError: Email already registered")
       ELSE Goto(p, f, "register_insert", <<>>)
    /\ UNCHANGED <<store, now, ids>>

register_insert(p, f) ==
    LET user_id == <<"uuid", nextUid>> IN
    /\ nextUid <= MaxUsers
    /\ users' = users \cup {NewUser(user_id, f.a.email, f.a.password)}
    /\ nextUid' = nextUid + 1
    /\ IF f.a.anonymous_user_id # NoUser
       THEN Goto(p, f, "migrate_anonymous_sessions", [user_id |-> user_id])
       ELSE Return(p, f, AuthResult(user_id, f.a.email))
    /\ UNCHANGED <<sessions, messages, now, nextSid, nextMid>>

(* update_many is a batch of per-document updates, not a transaction.  The  *)
(* first step fixes the documents that match when the batch starts; each    *)
(* later step updates one matching document; the batch ends once none of    *)
(* the documents it started with is left to update.  A document that starts *)
(* to match meanwhile may be updated or missed.                             *)
migrate_anonymous_sessions(p, f) ==
    LET m == MigrateArgs(f) IN
    /\ Goto(p, f, "migrate_update",
            [user_id |-> m.user_id, anonymous_user_id |-> m.anonymous_user_id,
             new_user_id |-> m.new_user_id,
             first |-> {s.session_id : s \in {x \in sessions : x.user_id = m.anonymous_user_id}},
             seen |-> {}, modified_count |-> 0])
    /\ UNCHANGED <<store, now, ids>>

migrate_update(p, f) ==
    \/ \E s \in sessions :
          /\ s.user_id = f.l.anonymous_user_id
          /\ s.session_id \notin f.l.seen
          /\ sessions' = (sessions \ {s}) \cup {ReparentPatch(s, f.l.new_user_id)}
          /\ Goto(p, f, "migrate_update",
                  [f.l EXCEPT !.seen = @ \cup {s.session_id},
                              !.modified_count =
                                  IF ReparentPatch(s, f.l.new_user_id) # s THEN @ + 1 ELSE @])
          /\ UNCHANGED <<messages, users, now, ids>>
    \/ /\ \A s \in sessions :
              s.user_id = f.l.anonymous_user_id => s.session_id \notin (f.l.first \ f.l.seen)
       /\ IF f.op = "register_user"
          THEN ReturnPrinted(p, f, AuthResult(f.l.user_id, f.a.email), <<f.l.modified_count>>)
          ELSE ReturnPrinted(p, f, MigrateReturn(f.l.modified_count), <<f.l.modified_count>>)
       /\ UNCHANGED <<store, now, ids>>

\* `not user or not self.verify_password(..., user["password_hash"])`: a user
\* document without the key makes the subscript raise KeyError
login_user(p, f) ==
    /\ \/ \E user \in {u \in users : u.email = f.a.email} :
              IF "password_hash" \notin DOMAIN user
              THEN Raise(p, f, "KeyError: 'password_hash'")
              ELSE IF ~verify_password(f.a.password, user.password_hash)
                   THEN Raise(p, f, "ValueError: Invalid email or password")
                   ELSE Goto(p, f, "login_update", [user |-> user])
       \/ /\ {u \in users : u.email = f.a.email} = {}
          /\ Raise(p, f, "ValueError: Invalid email or password")
    /\ UNCHANGED <<store, now, ids>>

\* a login that takes over the sessions of the anonymous visitors
login_update_Migrates(p, f) ==
    /\ users' = {IF u.user_id = f.l.user.user_id THEN [u EXCEPT !.last_active = now] ELSE u :
                     u \in users}
    /\ sessions' = {IF StartsWithAnon(s.user_id) THEN ReparentPatch(s, f.l.user.user_id) ELSE s :
                        s \in sessions}
    /\ Return(p, f, AuthResult(f.l.user.user_id, f.l.user.email))
    /\ UNCHANGED <<messages, now, ids>>

login_update(p, f) ==
    /\ users' = {IF u.user_id = f.l.user.user_id THEN [u EXCEPT !.last_active = now] ELSE u :
                     u \in users}
    /\ Return(p, f, AuthResult(f.l.user.user_id, f.l.user.email))
    /\ UNCHANGED <<sessions, messages, now, ids>>

(***************************************************************************)
(* main.make_prompt: POST /api/chat/prompt.  Its whole body is one try,     *)
(* whose except turns any exception into HTTPException(500).               *)
(***************************************************************************)
\* get_session_messages(session_id) is called with its default limit
DefaultMessageLimit == 50

\* session_service.add_message(request.session_id, "user", ...): insert_one
make_prompt(p, f) ==
    /\ nextMid <= MaxMessages
    /\ messages' = messages \cup {NewMessage(nextMid, f.a.session_id, "user")}
    /\ nextMid' = nextMid + 1
    /\ Goto(p, f, "prompt_user_update", <<>>)
    /\ UNCHANGED <<sessions, users, now, nextSid, nextUid>>

\* ... and its update_one
prompt_user_update(p, f) ==
    /\ sessions' = {IF s.session_id = f.a.session_id THEN MessagePatch(s) ELSE s : s \in sessions}
    /\ Goto(p, f, "prompt_history", <<>>)
    /\ UNCHANGED <<messages, users, now, ids>>

\* raw_messages = get_session_messages(...), turned into Human/AI messages
prompt_history(p, f) ==
    /\ \E raw_messages \in get_session_messages(f.a.session_id, DefaultMessageLimit) :
           Goto(p, f, "prompt_answer",
                [langchain_messages |->
                     [i \in 1..Len(raw_messages) |-> raw_messages[i].type]])
    /\ UNCHANGED <<store, now, ids>>

\* a handler that goes on to record an answer it never got
prompt_answer_IgnoresFailure(p, f) ==
    /\ \E answered \in BOOLEAN : Goto(p, f, "prompt_ai_insert", [answered |-> answered])
    /\ UNCHANGED <<store, now, ids>>

\* rag_service.get_response(...): returns an answer or raises
prompt_answer(p, f) ==
    /\ \/ Goto(p, f, "prompt_ai_insert", [answered |-> TRUE])
       \/ Raise(p, f, "HTTPException 500: Error processing your request")
    /\ UNCHANGED <<store, now, ids>>

\* session_service.add_message(request.session_id, "ai", ...): insert_one
prompt_ai_insert(p, f) ==
    /\ nextMid <= MaxMessages
    /\ messages' = messages \cup {NewMessage(nextMid, f.a.session_id, "ai")}
    /\ nextMid' = nextMid + 1
    /\ Goto(p, f, "prompt_ai_update", f.l)
    /\ UNCHANGED <<sessions, users, now, nextSid, nextUid>>

\* ... its update_one, and the response
prompt_ai_update(p, f) ==
    /\ sessions' = {IF s.session_id = f.a.session_id THEN MessagePatch(s) ELSE s : s \in sessions}
    /\ Return(p, f, "llm_response")
    /\ UNCHANGED <<messages, users, now, ids>>

(***************************************************************************)
(* The calls a client can make, each with the arguments a specification    *)
(* draws from.                                                             *)
(***************************************************************************)
WriteCalls(uids, anons, sids, types) ==
    {Frame("create_session", [user_id |-> u]) : u \in uids}
    \cup {Frame("create_session_smart", [user_id |-> u]) : u \in uids}
    \cup {Frame("get_or_create_anonymous_session", [user_id |-> u]) : u \in anons}
    \cup {Frame("replace_anonymous_session_content", [user_id |-> u]) : u \in anons}
    \cup {Frame("add_message", [session_id |-> s, message_type |-> t]) :
              s \in sids, t \in types}
    \cup {Frame("delete_session", [session_id |-> s]) : s \in sids}

ReadCalls(uids, sids, limits) ==
    {Frame("get_user_sessions", [user_id |-> u, limit |-> n]) : u \in uids, n \in limits}
    \cup {Frame("get_session_messages", [session_id |-> s, limit |-> n]) :
              s \in sids, n \in limits}

MigrateCalls(anons, uids) ==
    {Frame("migrate_anonymous_sessions", [anonymous_user_id |-> u, new_user_id |-> v]) :
          u \in anons, v \in uids}

AuthCalls(emails, passwords, anons) ==
    {Frame("register_user", [email |-> e, password |-> w, anonymous_user_id |-> u]) :
          e \in emails, w \in {"p1"}, u \in anons}
    \cup {Frame("login_user", [email |-> e, password |-> w]) : e \in emails, w \in passwords}

\* the frames with which worker p can make the store call `at`: a new call when
\* idle, else the call in progress
At(p, calls, at) == {f \in IF pc[p].op = "idle" THEN calls ELSE {pc[p]} : f.at = at}

\* a service without the try/except of delete_session
StoreFailure_AlwaysRaises(p, f) ==
    /\ Raise(p, f, "PyMongoError")
    /\ UNCHANGED <<store, now, ids>>

(* A store call that fails raises out of the handler.  delete_session wraps *)
(* its body in try/except Exception and returns False; no other handler of  *)
(* the two services catches anything.                                       *)
StoreFailure(p, f) ==
    /\ IF f.op = "delete_session"
       THEN Return(p, f, FALSE)
       ELSE Raise(p, f, "PyMongoError")
    /\ UNCHANGED <<store, now, ids>>

Tick ==
    /\ now < MaxTime
    /\ now' = now + 1
    /\ UNCHANGED <<store, ids, pc, result, ghost>>

(***************************************************************************)
(* History variables, kept by the sequential specifications only.          *)
(***************************************************************************)
Snapshot(failed) ==
    [sessions |-> sessions, messages |-> messages, users |-> users, failed |-> failed]

Track(p, failed) ==
    LET ended == pc'[p].op = "idle"
        r == result'[p]
    IN
    /\ pre' = IF pc[p].op = "idle" THEN Snapshot(failed) ELSE [pre EXCEPT !.failed = failed]
    /\ run' =
         IF ended
         THEN IF r.kind = "return" /\ nextSid' > nextSid
              THEN [session_id |-> r.val, n |-> 0, message_ids |-> {}]
              ELSE IF run.session_id # 0 /\ r.kind = "return" /\ r.op = "add_message"
                      /\ r.a.session_id = run.session_id
                   THEN [run EXCEPT !.n = @ + 1, !.message_ids = @ \cup {r.val}]
                   ELSE NoRun
         ELSE IF pc'[p].op = "add_message" /\ pc'[p].a.session_id = run.session_id
              THEN run
              ELSE NoRun
    /\ reused' =
         IF ended /\ r.op \in {"delete_session", "migrate_anonymous_sessions", "register_user"}
         THEN [u \in AnonIds |-> NoReuse]
         ELSE IF ended /\ r.op = "get_or_create_anonymous_session" /\ r.kind = "return"
              THEN [reused EXCEPT ![r.a.user_id] =
                        [session_id |-> r.val, calls |-> IF @.calls = 0 THEN 1 ELSE 2]]
              ELSE reused
    /\ deleted' =
         IF ended /\ r.op = "delete_session" /\ r.kind = "return" /\ r.val
         THEN deleted \cup {r.a.session_id}
         ELSE deleted
    /\ UNCHANGED <<handed, trail>>

\* a step whose store call succeeded, and one whose store call failed
History(p) == Track(p, FALSE)
HistoryFailed(p) == Track(p, TRUE)

NoHistory(p) == UNCHANGED ghost

\* the only history kept: what create_session_smart returned to whom
Handed(p) ==
    LET r == result'[p] IN
    /\ handed' =
         IF /\ pc'[p].op = "idle"
            /\ r.op = "create_session_smart"
            /\ r.kind = "return"
            /\ r.a.user_id \in AnonIds
         THEN [handed EXCEPT ![r.a.user_id] = @ \cup {r.val}]
         ELSE handed
    /\ UNCHANGED <<pre, run, reused, deleted, trail>>

\* the only history kept: per request, the messages it inserted and how the
\* answer went, in the order they happened
Trail(p) ==
    LET before == IF pc[p].op = "idle" THEN <<>> ELSE trail[p]
        event ==
            IF messages' # messages
            THEN <<[e |-> "append", message |-> CHOOSE m \in messages' \ messages : TRUE]>>
            ELSE IF pc[p].at = "prompt_answer"
                 THEN <<[e |-> "answer",
                         ok |-> pc'[p].op # "idle" /\ pc'[p].l.answered]>>
                 ELSE <<>>
    IN
    /\ trail' = [trail EXCEPT ![p] = before \o event]
    /\ UNCHANGED <<pre, run, reused, deleted, handed>>

(***************************************************************************)
(* Specifications.                                                         *)
(***************************************************************************)
Init ==
    /\ sessions = {}
    /\ messages = {}
    /\ users = {}
    /\ now = 0
    /\ nextSid = 1
    /\ nextMid = 1
    /\ nextUid = 1
    /\ pc = [p \in Procs |-> Idle]
    /\ result = [p \in Procs |-> NoResult]
    /\ pre = [sessions |-> {}, messages |-> {}, users |-> {}, failed |-> FALSE]
    /\ run = NoRun
    /\ reused = [u \in AnonIds |-> NoReuse]
    /\ deleted = {}
    /\ handed = [u \in AnonIds |-> {}]
    /\ trail = [p \in Procs |-> <<>>]

\* request-parallel: the workers interleave between store calls
ConcCalls ==
    WriteCalls({<<"anon_", 1>>}, {<<"anon_", 1>>}, IssuedSids, {"user"})
    \cup MigrateCalls({<<"anon_", 1>>}, OtherIds)

Next ==
    \/ \E p \in Procs : \E f \in At(p, ConcCalls, "create_session") :
          create_session(p, f) /\ NoHistory(p)
    \/ \E p \in Procs : \E f \in At(p, ConcCalls, "add_message") :
          add_message(p, f) /\ NoHistory(p)
    \/ \E p \in Procs : \E f \in At(p, ConcCalls, "add_message_update") :
          add_message_update(p, f) /\ NoHistory(p)
    \/ \E p \in Procs : \E f \in At(p, ConcCalls, "delete_session") :
          delete_session(p, f) /\ NoHistory(p)
    \/ \E p \in Procs : \E f \in At(p, ConcCalls, "delete_session_doc") :
          delete_session_doc(p, f) /\ NoHistory(p)
    \/ \E p \in Procs : \E f \in At(p, ConcCalls, "replace_anonymous_session_content") :
          replace_anonymous_session_content(p, f) /\ NoHistory(p)
    \/ \E p \in Procs : \E f \in At(p, ConcCalls, "replace_delete") :
          replace_delete(p, f) /\ NoHistory(p)
    \/ \E p \in Procs : \E f \in At(p, ConcCalls, "replace_update") :
          replace_update(p, f) /\ NoHistory(p)
    \/ \E p \in Procs : \E f \in At(p, ConcCalls, "migrate_anonymous_sessions") :
          migrate_anonymous_sessions(p, f) /\ NoHistory(p)
    \/ \E p \in Procs : \E f \in At(p, ConcCalls, "migrate_update") :
          migrate_update(p, f) /\ NoHistory(p)
    \/ Tick

Spec == Init /\ [][Next]_vars

\* request-parallel: the three anonymous-session entry points
AnonCalls ==
    {Frame("create_session_smart", [user_id |-> u]) : u \in AnonIds}
    \cup {Frame("get_or_create_anonymous_session", [user_id |-> u]) : u \in AnonIds}
    \cup {Frame("replace_anonymous_session_content", [user_id |-> u]) : u \in AnonIds}

NextAnon ==
    \/ \E p \in Procs : \E f \in At(p, AnonCalls, "create_session_smart") :
          create_session_smart(p, f) /\ NoHistory(p)
    \/ \E p \in Procs : \E f \in At(p, AnonCalls, "get_or_create_anonymous_session") :
          get_or_create_anonymous_session(p, f) /\ NoHistory(p)
    \/ \E p \in Procs : \E f \in At(p, AnonCalls, "replace_anonymous_session_content") :
          replace_anonymous_session_content(p, f) /\ NoHistory(p)
    \/ \E p \in Procs : \E f \in At(p, AnonCalls, "replace_delete") :
          replace_delete(p, f) /\ NoHistory(p)
    \/ \E p \in Procs : \E f \in At(p, AnonCalls, "replace_update") :
          replace_update(p, f) /\ NoHistory(p)
    \/ \E p \in Procs : \E f \in At(p, AnonCalls, "create_session") :
          create_session(p, f) /\ NoHistory(p)
    \/ Tick

SpecAnon == Init /\ [][NextAnon]_vars

\* one request at a time, every store call succeeding: the session service
SeqCalls ==
    WriteCalls({<<"anon_", 1>>} \cup OtherIds, {<<"anon_", 1>>}, IssuedSids, {"user"})
    \cup MigrateCalls({<<"anon_", 1>>}, OtherIds)

NextSeq ==
    \/ \E f \in At(1, SeqCalls, "create_session") : create_session(1, f) /\ History(1)
    \/ \E f \in At(1, SeqCalls, "create_session_smart") :
          create_session_smart(1, f) /\ History(1)
    \/ \E f \in At(1, SeqCalls, "add_message") : add_message(1, f) /\ History(1)
    \/ \E f \in At(1, SeqCalls, "add_message_update") :
          add_message_update(1, f) /\ History(1)
    \/ \E f \in At(1, SeqCalls, "delete_session") : delete_session(1, f) /\ History(1)
    \/ \E f \in At(1, SeqCalls, "delete_session_doc") :
          delete_session_doc(1, f) /\ History(1)
    \/ \E f \in At(1, SeqCalls, "get_or_create_anonymous_session") :
          get_or_create_anonymous_session(1, f) /\ History(1)
    \/ \E f \in At(1, SeqCalls, "replace_anonymous_session_content") :
          replace_anonymous_session_content(1, f) /\ History(1)
    \/ \E f \in At(1, SeqCalls, "replace_delete") : replace_delete(1, f) /\ History(1)
    \/ \E f \in At(1, SeqCalls, "replace_update") : replace_update(1, f) /\ History(1)
    \/ \E f \in At(1, SeqCalls, "migrate_anonymous_sessions") :
          migrate_anonymous_sessions(1, f) /\ History(1)
    \/ \E f \in At(1, SeqCalls, "migrate_update") : migrate_update(1, f) /\ History(1)
    \/ Tick

SpecSeq == Init /\ [][NextSeq]_vars

\* one request at a time, every store call succeeding: registration and login
RegCalls ==
    {Frame("create_session_smart", [user_id |-> u]) : u \in {<<"anon_", 1>>} \cup IssuedUids}
    \cup {Frame("create_session", [user_id |-> u]) : u \in {<<"anon_", 1>>}}
    \cup {Frame("add_message", [session_id |-> s, message_type |-> t]) :
              s \in IssuedSids, t \in MessageTypes}
    \cup AuthCalls({"a@x.com"}, Passwords, {NoUser, <<"anon_", 1>>})

NextReg ==
    \/ \E f \in At(1, RegCalls, "create_session_smart") :
          create_session_smart(1, f) /\ History(1)
    \/ \E f \in At(1, RegCalls, "create_session") : create_session(1, f) /\ History(1)
    \/ \E f \in At(1, RegCalls, "replace_delete") : replace_delete(1, f) /\ History(1)
    \/ \E f \in At(1, RegCalls, "replace_update") : replace_update(1, f) /\ History(1)
    \/ \E f \in At(1, RegCalls, "add_message") : add_message(1, f) /\ History(1)
    \/ \E f \in At(1, RegCalls, "add_message_update") :
          add_message_update(1, f) /\ History(1)
    \/ \E f \in At(1, RegCalls, "register_user") : register_user(1, f) /\ History(1)
    \/ \E f \in At(1, RegCalls, "register_insert") : register_insert(1, f) /\ History(1)
    \/ \E f \in At(1, RegCalls, "migrate_anonymous_sessions") :
          migrate_anonymous_sessions(1, f) /\ History(1)
    \/ \E f \in At(1, RegCalls, "migrate_update") : migrate_update(1, f) /\ History(1)
    \/ \E f \in At(1, RegCalls, "login_user") : login_user(1, f) /\ History(1)
    \/ \E f \in At(1, RegCalls, "login_update") : login_update(1, f) /\ History(1)
    \/ Tick

SpecReg == Init /\ [][NextReg]_vars

\* one request at a time, any store call may fail; no error path reads the
\* clock, which stands still here
FailCalls ==
    WriteCalls({<<"anon_", 1>>}, {<<"anon_", 1>>}, IssuedSids, {"user"})
    \cup ReadCalls({<<"anon_", 1>>}, IssuedSids, {0})
    \cup MigrateCalls({<<"anon_", 1>>}, OtherIds)
    \cup AuthCalls({"a@x.com"}, {"p1"}, {<<"anon_", 1>>})

NextFail ==
    \/ \E f \in At(1, FailCalls, "create_session") : create_session(1, f) /\ History(1)
    \/ \E f \in At(1, FailCalls, "create_session_smart") :
          create_session_smart(1, f) /\ History(1)
    \/ \E f \in At(1, FailCalls, "get_user_sessions") :
          get_user_sessions_call(1, f) /\ History(1)
    \/ \E f \in At(1, FailCalls, "add_message") : add_message(1, f) /\ History(1)
    \/ \E f \in At(1, FailCalls, "add_message_update") :
          add_message_update(1, f) /\ History(1)
    \/ \E f \in At(1, FailCalls, "get_session_messages") :
          get_session_messages_call(1, f) /\ History(1)
    \/ \E f \in At(1, FailCalls, "delete_session") : delete_session(1, f) /\ History(1)
    \/ \E f \in At(1, FailCalls, "delete_session_doc") :
          delete_session_doc(1, f) /\ History(1)
    \/ \E f \in At(1, FailCalls, "get_or_create_anonymous_session") :
          get_or_create_anonymous_session(1, f) /\ History(1)
    \/ \E f \in At(1, FailCalls, "replace_anonymous_session_content") :
          replace_anonymous_session_content(1, f) /\ History(1)
    \/ \E f \in At(1, FailCalls, "replace_delete") : replace_delete(1, f) /\ History(1)
    \/ \E f \in At(1, FailCalls, "replace_update") : replace_update(1, f) /\ History(1)
    \/ \E f \in At(1, FailCalls, "register_user") : register_user(1, f) /\ History(1)
    \/ \E f \in At(1, FailCalls, "register_insert") : register_insert(1, f) /\ History(1)
    \/ \E f \in At(1, FailCalls, "migrate_anonymous_sessions") :
          migrate_anonymous_sessions(1, f) /\ History(1)
    \/ \E f \in At(1, FailCalls, "migrate_update") : migrate_update(1, f) /\ History(1)
    \/ \E f \in At(1, FailCalls, "login_user") : login_user(1, f) /\ History(1)
    \/ \E f \in At(1, FailCalls, "login_update") : login_update(1, f) /\ History(1)
    \/ \E f \in (IF pc[1].op = "idle" THEN FailCalls ELSE {pc[1]}) :
          StoreFailure(1, f) /\ HistoryFailed(1)

SpecFail == Init /\ [][NextFail]_vars

\* request-parallel: registration and login
AuthConcCalls == AuthCalls(Emails, {"p1"}, {NoUser})

NextAuth ==
    \/ \E p \in Procs : \E f \in At(p, AuthConcCalls, "register_user") :
          register_user(p, f) /\ NoHistory(p)
    \/ \E p \in Procs : \E f \in At(p, AuthConcCalls, "register_insert") :
          register_insert(p, f) /\ NoHistory(p)
    \/ \E p \in Procs : \E f \in At(p, AuthConcCalls, "login_user") :
          login_user(p, f) /\ NoHistory(p)
    \/ \E p \in Procs : \E f \in At(p, AuthConcCalls, "login_update") :
          login_update(p, f) /\ NoHistory(p)
    \/ Tick

SpecAuth == Init /\ [][NextAuth]_vars

\* one request at a time: the three writers of the users collection
LoginCalls ==
    {Frame("create_user", [email |-> e]) : e \in Emails}
    \cup AuthCalls(Emails, Passwords, {NoUser})

NextLogin ==
    \/ \E f \in At(1, LoginCalls, "create_user") : create_user(1, f) /\ History(1)
    \/ \E f \in At(1, LoginCalls, "register_user") : register_user(1, f) /\ History(1)
    \/ \E f \in At(1, LoginCalls, "register_insert") : register_insert(1, f) /\ History(1)
    \/ \E f \in At(1, LoginCalls, "login_user") : login_user(1, f) /\ History(1)
    \/ \E f \in At(1, LoginCalls, "login_update") : login_update(1, f) /\ History(1)
    \/ Tick

SpecLogin == Init /\ [][NextLogin]_vars

\* request-parallel: two anonymous visitors, each starting chats, appending
\* and listing
TwoCalls ==
    {Frame("create_session_smart", [user_id |-> u]) : u \in AnonIds}
    \cup {Frame("add_message", [session_id |-> s, message_type |-> "user"]) : s \in IssuedSids}
    \cup {Frame("get_user_sessions", [user_id |-> u, limit |-> n]) : u \in AnonIds, n \in {MaxLimit}}

NextTwo ==
    \/ \E p \in Procs : \E f \in At(p, TwoCalls, "create_session_smart") :
          create_session_smart(p, f) /\ Handed(p)
    \/ \E p \in Procs : \E f \in At(p, TwoCalls, "replace_delete") :
          replace_delete(p, f) /\ Handed(p)
    \/ \E p \in Procs : \E f \in At(p, TwoCalls, "replace_update") :
          replace_update(p, f) /\ Handed(p)
    \/ \E p \in Procs : \E f \in At(p, TwoCalls, "create_session") :
          create_session(p, f) /\ Handed(p)
    \/ \E p \in Procs : \E f \in At(p, TwoCalls, "add_message") :
          add_message(p, f) /\ Handed(p)
    \/ \E p \in Procs : \E f \in At(p, TwoCalls, "add_message_update") :
          add_message_update(p, f) /\ Handed(p)
    \/ \E p \in Procs : \E f \in At(p, TwoCalls, "get_user_sessions") :
          get_user_sessions_call(p, f) /\ Handed(p)
    \/ Tick

SpecTwo == Init /\ [][NextTwo]_vars

\* request-parallel: chat prompts on the sessions created so far
PromptCalls ==
    {Frame("create_session", [user_id |-> u]) : u \in OtherIds}
    \cup {Frame("make_prompt", [session_id |-> s]) : s \in IssuedSids}

NextPrompt ==
    \/ \E p \in Procs : \E f \in At(p, PromptCalls, "create_session") :
          create_session(p, f) /\ Trail(p)
    \/ \E p \in Procs : \E f \in At(p, PromptCalls, "make_prompt") :
          make_prompt(p, f) /\ Trail(p)
    \/ \E p \in Procs : \E f \in At(p, PromptCalls, "prompt_user_update") :
          prompt_user_update(p, f) /\ Trail(p)
    \/ \E p \in Procs : \E f \in At(p, PromptCalls, "prompt_history") :
          prompt_history(p, f) /\ Trail(p)
    \/ \E p \in Procs : \E f \in At(p, PromptCalls, "prompt_answer") :
          prompt_answer(p, f) /\ Trail(p)
    \/ \E p \in Procs : \E f \in At(p, PromptCalls, "prompt_ai_insert") :
          prompt_ai_insert(p, f) /\ Trail(p)
    \/ \E p \in Procs : \E f \in At(p, PromptCalls, "prompt_ai_update") :
          prompt_ai_update(p, f) /\ Trail(p)
    \/ Tick

SpecPrompt == Init /\ [][NextPrompt]_vars

\* one request at a time: sessions of anonymous and registered callers, and
\* POST /api/auth/register with whatever anonymous_user_id the client sends
TakeoverCalls ==
    {Frame("create_session_smart", [user_id |-> u]) : u \in {<<"anon_", 1>>} \cup IssuedUids}
    \cup {Frame("register_user", [email |-> e, password |-> "p1", anonymous_user_id |-> u]) :
              e \in Emails, u \in {NoUser, <<"anon_", 1>>} \cup IssuedUids}

NextTakeover ==
    \/ \E f \in At(1, TakeoverCalls, "create_session_smart") :
          create_session_smart(1, f) /\ History(1)
    \/ \E f \in At(1, TakeoverCalls, "create_session") : create_session(1, f) /\ History(1)
    \/ \E f \in At(1, TakeoverCalls, "replace_delete") : replace_delete(1, f) /\ History(1)
    \/ \E f \in At(1, TakeoverCalls, "replace_update") : replace_update(1, f) /\ History(1)
    \/ \E f \in At(1, TakeoverCalls, "register_user") : register_user(1, f) /\ History(1)
    \/ \E f \in At(1, TakeoverCalls, "register_insert") :
          register_insert(1, f) /\ History(1)
    \/ \E f \in At(1, TakeoverCalls, "migrate_anonymous_sessions") :
          migrate_anonymous_sessions(1, f) /\ History(1)
    \/ \E f \in At(1, TakeoverCalls, "migrate_update") : migrate_update(1, f) /\ History(1)
    \/ Tick

SpecTakeover == Init /\ [][NextTakeover]_vars

\* one client: an anonymous visitor who chats, then registers with its
\* anonymous id and, whatever comes back, keeps sending the same registration
\* and logging in.  The update_many of the migration may fail, which ends the
\* request after the user document is in.
RetryCalls ==
    (IF users = {}
     THEN {Frame("create_session_smart", [user_id |-> <<"anon_", 1>>])}
          \cup {Frame("add_message", [session_id |-> s, message_type |-> t]) :
                    s \in IssuedSids, t \in MessageTypes}
     ELSE {})
    \cup {Frame("register_user",
                [email |-> "a@x.com", password |-> "p1", anonymous_user_id |-> <<"anon_", 1>>])}
    \cup {Frame("login_user", [email |-> "a@x.com", password |-> "p1"])}

RetryRegister ==
    \E f \in At(1, RetryCalls, "register_user") : register_user(1, f) /\ History(1)

RetryRegisterInsert ==
    \E f \in At(1, RetryCalls, "register_insert") : register_insert(1, f) /\ History(1)

RetryMigrate ==
    \E f \in At(1, RetryCalls, "migrate_anonymous_sessions") :
        migrate_anonymous_sessions(1, f) /\ History(1)

RetryMigrateUpdate ==
    \E f \in At(1, RetryCalls, "migrate_update") : migrate_update(1, f) /\ History(1)

RetryMigrateFails ==
    \E f \in At(1, RetryCalls, "migrate_anonymous_sessions") :
        StoreFailure(1, f) /\ HistoryFailed(1)

RetryLogin ==
    \E f \in At(1, RetryCalls, "login_user") : login_user(1, f) /\ History(1)

RetryLoginUpdate ==
    \E f \in At(1, RetryCalls, "login_update") : login_update(1, f) /\ History(1)

NextRetry ==
    \/ \E f \in At(1, RetryCalls, "create_session_smart") :
          create_session_smart(1, f) /\ History(1)
    \/ \E f \in At(1, RetryCalls, "create_session") : create_session(1, f) /\ History(1)
    \/ \E f \in At(1, RetryCalls, "replace_delete") : replace_delete(1, f) /\ History(1)
    \/ \E f \in At(1, RetryCalls, "replace_update") : replace_update(1, f) /\ History(1)
    \/ \E f \in At(1, RetryCalls, "add_message") : add_message(1, f) /\ History(1)
    \/ \E f \in At(1, RetryCalls, "add_message_update") :
          add_message_update(1, f) /\ History(1)
    \/ RetryRegister
    \/ RetryRegisterInsert
    \/ RetryMigrate
    \/ RetryMigrateUpdate
    \/ RetryMigrateFails
    \/ RetryLogin
    \/ RetryLoginUpdate
    \/ Tick

\* a request that has started runs on unless its store call fails; the client
\* sends its registration and its login again and again
SpecRetry ==
    /\ Init
    /\ [][NextRetry]_vars
    /\ WF_vars(RetryRegisterInsert)
    /\ WF_vars(RetryMigrate)
    /\ WF_vars(RetryMigrateUpdate)
    /\ WF_vars(RetryLoginUpdate)
    /\ SF_vars(RetryRegister)
    /\ SF_vars(RetryLogin)

\* request-parallel: appends on the sessions created so far, nothing else
AppendCalls ==
    {Frame("create_session", [user_id |-> u]) : u \in OtherIds}
    \cup {Frame("add_message", [session_id |-> s, message_type |-> t]) :
              s \in IssuedSids, t \in MessageTypes}

NextAppend ==
    \/ \E p \in Procs : \E f \in At(p, AppendCalls, "create_session") :
          create_session(p, f) /\ NoHistory(p)
    \/ \E p \in Procs : \E f \in At(p, AppendCalls, "add_message") :
          add_message(p, f) /\ NoHistory(p)
    \/ \E p \in Procs : \E f \in At(p, AppendCalls, "add_message_update") :
          add_message_update(p, f) /\ NoHistory(p)
    \/ Tick

SpecAppend == Init /\ [][NextAppend]_vars

(***************************************************************************)
(* Properties.                                                             *)
(***************************************************************************)
SessionIds(coll) == {s.session_id : s \in coll}
MessageIds(q) == {q[i].message_id : i \in 1..Len(q)}
Limits == 0..MaxLimit

\* C1: in every reachable state each session's message_count equals the number
\* of message documents that carry its session_id.  (Spec)
C1_MessageCountMatchesLedger ==
    \A s \in sessions : s.message_count = Cardinality(MessagesOf(s.session_id))

\* C2: after a session is created and N add_message calls on it follow with no
\* other call in between, its message_count is N and get_session_messages with
\* no limit or a limit >= N returns exactly the N messages appended.  (SpecSeq)
C2_CountAfterSequentialAppends ==
    (pc[1].op = "idle" /\ run.session_id # 0) =>
        /\ \E s \in sessions : s.session_id = run.session_id /\ s.message_count = run.n
        /\ \A limit \in Limits :
              (limit = 0 \/ limit >= run.n) =>
                  \A q \in get_session_messages(run.session_id, limit) :
                      Len(q) = run.n /\ MessageIds(q) = run.message_ids

C2_Witness ==
    /\ pc[1].op = "idle"
    /\ run.session_id # 0
    /\ run.n >= 2
    /\ result[1].op = "add_message"

\* C3: every anonymous id owns at most one active session, whatever the
\* interleaving of get_or_create_anonymous_session,
\* replace_anonymous_session_content and create_session_smart.  (SpecAnon)
C3_OneActiveSessionPerAnonymous ==
    \A u \in AnonIds : Cardinality(ActiveSessionsOf(u)) <= 1

\* the step completes a call of `op` by the sequential worker
Completes(op) ==
    /\ now' = now
    /\ pc[1].op \in {"idle", op}
    /\ pc'[1].op = "idle"
    /\ result'[1].op = op

Unchanged(before) ==
    /\ sessions' = before.sessions
    /\ messages' = before.messages
    /\ users' = before.users

\* C4: a get_or_create_anonymous_session(id) that follows an earlier
\* one for the same id, with no delete or migrate between them, returns the same
\* session_id and leaves the three collections as they were.  (SpecSeq)
C4_SecondCallReturnsSame ==
    [][\A u \in AnonIds :
          (/\ reused[u].calls > 0
           /\ Completes("get_or_create_anonymous_session")
           /\ result'[1].kind = "return"
           /\ result'[1].a.user_id = u)
          => (result'[1].val = reused[u].session_id /\ Unchanged(pre'))]_vars

\* Where the code does what C4 says: for an id that owns at most one active
\* session when the second call is made.  (SpecSeq)
SecondCallReturnsSameWhenOneSession ==
    [][\A u \in AnonIds :
          (/\ reused[u].calls > 0
           /\ Completes("get_or_create_anonymous_session")
           /\ result'[1].kind = "return"
           /\ result'[1].a.user_id = u
           /\ Cardinality({s \in pre'.sessions : s.user_id = u /\ s.is_active}) <= 1)
          => (result'[1].val = reused[u].session_id /\ Unchanged(pre'))]_vars

SecondCallWithOneSession ==
    \E u \in AnonIds :
        /\ pc[1].op = "idle"
        /\ result[1].op = "get_or_create_anonymous_session"
        /\ result[1].a.user_id = u
        /\ reused[u].calls = 2
        /\ result[1].val = reused[u].session_id
        /\ Cardinality(ActiveSessionsOf(u)) = 1

\* C5: replace_anonymous_session_content(id), run alone, for an id with an
\* active session returns the id of one of them, inserts no session, and leaves
\* that session with message_count 0, title "New Chat" and no messages; for an
\* id without one it inserts exactly one session, owned by id.  (SpecSeq)
C5_ResetKeepsSessionId ==
    LET r == result[1]
        had == {s \in pre.sessions : s.user_id = r.a.user_id /\ s.is_active}
    IN
    (pc[1].op = "idle" /\ r.op = "replace_anonymous_session_content" /\ r.kind = "return") =>
        IF had # {}
        THEN /\ r.val \in SessionIds(had)
             /\ SessionIds(sessions) = SessionIds(pre.sessions)
             /\ Cardinality(sessions) = Cardinality(pre.sessions)
             /\ \E s \in sessions : s.session_id = r.val
             /\ \A s \in sessions :
                   s.session_id = r.val => s.message_count = 0 /\ s.title = "New Chat"
             /\ \A limit \in Limits : get_session_messages(r.val, limit) = {<<>>}
        ELSE /\ pre.sessions \subseteq sessions
             /\ Cardinality(sessions \ pre.sessions) = 1
             /\ r.val \notin SessionIds(pre.sessions)
             /\ \A s \in sessions \ pre.sessions :
                   s.session_id = r.val /\ s.user_id = r.a.user_id

C5_Witness ==
    /\ pc[1].op = "idle"
    /\ result[1].op = "replace_anonymous_session_content"
    /\ result[1].kind = "return"
    /\ \E s \in pre.sessions : s.session_id = result[1].val /\ s.message_count > 0
    /\ \E m \in pre.messages : m.session_id = result[1].val

\* the sessions the anonymous id of the last call owned when the call began
OwnedBefore(anonymous_user_id) == {s \in pre.sessions : s.user_id = anonymous_user_id}

\* C6: when migrate_anonymous_sessions(anon_id, new_id), run alone, has
\* returned, every session anon_id owned before the call is owned by new_id and
\* no session is owned by anon_id.  (SpecSeq)
C6_MigrateReparentsAll ==
    LET r == result[1] IN
    (pc[1].op = "idle" /\ r.op = "migrate_anonymous_sessions" /\ r.kind = "return") =>
        /\ \A s \in OwnedBefore(r.a.anonymous_user_id) :
              \E s2 \in sessions :
                  s2.session_id = s.session_id /\ s2.user_id = r.a.new_user_id
        /\ \A s \in sessions : s.user_id # r.a.anonymous_user_id

C6_Witness ==
    /\ pc[1].op = "idle"
    /\ result[1].op = "migrate_anonymous_sessions"
    /\ result[1].kind = "return"
    /\ Cardinality(OwnedBefore(result[1].a.anonymous_user_id)) >= 2

\* C7 as claimed: migrate_anonymous_sessions returns the number of sessions the
\* anonymous id owned before the call and it reparented.  (SpecSeq)
C7_MigrateReturnsCount ==
    LET r == result[1] IN
    (pc[1].op = "idle" /\ r.op = "migrate_anonymous_sessions" /\ r.kind = "return") =>
        r.val = PyInt(Cardinality(OwnedBefore(r.a.anonymous_user_id)))

\* C7 amended: migrate_anonymous_sessions returns None; the number of sessions
\* the anonymous id owned before the call and it reparented is only printed.
\* (SpecSeq)
C7_MigratePrintsCountReturnsNone ==
    LET r == result[1] IN
    (pc[1].op = "idle" /\ r.op = "migrate_anonymous_sessions" /\ r.kind = "return") =>
        /\ r.val = None
        /\ r.printed = <<Cardinality(OwnedBefore(r.a.anonymous_user_id))>>
        /\ Cardinality(OwnedBefore(r.a.anonymous_user_id)) =
               Cardinality({s \in sessions : s.user_id = r.a.new_user_id
                                /\ s.session_id \in SessionIds(OwnedBefore(r.a.anonymous_user_id))})

C7_Witness ==
    /\ pc[1].op = "idle"
    /\ result[1].op = "migrate_anonymous_sessions"
    /\ result[1].kind = "return"
    /\ result[1].printed = <<2>>

\* C8: when register_user with an anonymous_user_id has returned, every session
\* S the anonymous id owned, holding k messages, is listed by get_user_sessions
\* for the new user_id (no limit, or a limit that covers the user's sessions)
\* with message_count k, and get_session_messages(S) returns the k messages it
\* held before the registration.  (SpecReg)
C8_RegisterKeepsAnonymousSessions ==
    LET r == result[1] IN
    (/\ pc[1].op = "idle"
     /\ r.op = "register_user"
     /\ r.kind = "return"
     /\ r.a.anonymous_user_id # NoUser) =>
        \A s \in OwnedBefore(r.a.anonymous_user_id) :
            LET held == {m \in pre.messages : m.session_id = s.session_id} IN
            /\ \A limit \in Limits :
                  (limit = 0 \/ limit >= Cardinality(ActiveSessionsOf(r.val.user_id))) =>
                      \A q \in get_user_sessions(r.val.user_id, limit) :
                          \E i \in 1..Len(q) :
                              /\ q[i].session_id = s.session_id
                              /\ q[i].message_count = Cardinality(held)
            /\ \A limit \in Limits :
                  (limit = 0 \/ limit >= Cardinality(held)) =>
                      \A q \in get_session_messages(s.session_id, limit) :
                          {q[i] : i \in 1..Len(q)} = held /\ Len(q) = Cardinality(held)

C8_Witness ==
    /\ pc[1].op = "idle"
    /\ result[1].op = "register_user"
    /\ result[1].kind = "return"
    /\ \E s \in OwnedBefore(result[1].a.anonymous_user_id) :
          Cardinality({m \in pre.messages : m.session_id = s.session_id}) = 2

\* C9: once delete_session(session_id) has returned True, no session document
\* with that id exists again and no get_user_sessions list of any owner holds
\* it; when it returns True no message of the session is left; a later
\* delete_session of the same id returns False and does not raise.  (SpecSeq)
C9_DeletedStaysDeleted ==
    /\ [](/\ \A sid \in deleted :
               /\ sid \notin SessionIds(sessions)
               /\ \A u \in AnonIds \cup OtherIds : \A limit \in Limits :
                     \A q \in get_user_sessions(u, limit) :
                         \A i \in 1..Len(q) : q[i].session_id # sid
          /\ (/\ pc[1].op = "idle"
              /\ result[1].op = "delete_session"
              /\ result[1].kind = "return"
              /\ result[1].val)
             => (/\ result[1].a.session_id \in deleted
                 /\ result[1].a.session_id \in SessionIds(pre.sessions)
                 /\ MessagesOf(result[1].a.session_id) = {}))
    /\ [][(Completes("delete_session") /\ result'[1].a.session_id \in deleted)
             => (result'[1].kind = "return" /\ result'[1].val = FALSE)]_vars

C9_Witness ==
    /\ pc[1].op = "idle"
    /\ result[1].op = "delete_session"
    /\ result[1].kind = "return"
    /\ result[1].val = FALSE
    /\ result[1].a.session_id \in deleted

\* C10: a call of delete_session during which a store call failed returns
\* False and raises nothing; a call of any other handler during which a store
\* call failed raises the store's error.  (SpecFail)
C10_OnlyDeleteSwallowsStoreFailure ==
    LET r == result[1] IN
    (pc[1].op = "idle" /\ pre.failed) =>
        IF r.op = "delete_session"
        THEN r.kind = "return" /\ r.val = FALSE
        ELSE r.kind = "raise" /\ r.val = "PyMongoError"

\* the store failed in the second step of a delete: messages gone, session kept
C10_Witness ==
    /\ pc[1].op = "idle"
    /\ pre.failed
    /\ result[1].op = "delete_session"
    /\ result[1].a.session_id \in SessionIds(sessions)
    /\ \E m \in pre.messages : m.session_id = result[1].a.session_id
    /\ MessagesOf(result[1].a.session_id) = {}

\* C11: in every reachable state, whatever the interleaving of concurrent
\* register_user calls, no two user documents carry the same email.  (SpecAuth)
C11_EmailUnique ==
    \A u1, u2 \in users : u1.email = u2.email => u1 = u2

\* C12: register_user, run alone, with an email some user document already
\* carries raises ValueError("Email already registered") and leaves users,
\* sessions and messages as they were, also when anonymous_user_id is given.
\* (SpecReg)
C12_DuplicateEmailLeavesStore ==
    LET r == result[1] IN
    (/\ pc[1].op = "idle"
     /\ r.op = "register_user"
     /\ \E u \in pre.users : u.email = r.a.email) =>
        /\ r.kind = "raise"
        /\ r.val = "ValueError: Email already registered"
        /\ users = pre.users
        /\ sessions = pre.sessions
        /\ messages = pre.messages

C12_Witness ==
    /\ pc[1].op = "idle"
    /\ result[1].op = "register_user"
    /\ result[1].kind = "raise"
    /\ result[1].a.anonymous_user_id = <<"anon_", 1>>
    /\ \E s \in sessions : s.user_id = <<"anon_", 1>>

\* the password verifies against the hash the user document carries
Verifies(u, password) ==
    "password_hash" \in DOMAIN u /\ verify_password(password, u.password_hash)

\* C13: a login_user call for an email no user document carries, and one for
\* an email some document carries with a password that verifies against none
\* of them, end alike: ValueError("Invalid email or password"), no user
\* document changed, nothing returned (no token).  (SpecLogin)
C13_LoginFailuresAlike ==
    LET r == result[1] IN
    (/\ pc[1].op = "idle"
     /\ r.op = "login_user"
     /\ ~ \E u \in pre.users : u.email = r.a.email /\ Verifies(u, r.a.password)) =>
        /\ r.kind = "raise"
        /\ r.val = "ValueError: Invalid email or password"
        /\ users = pre.users

\* Where the code does what C13 says: every user document with the email was
\* inserted by register_user.  (SpecLogin)
LoginFailuresAlikeForRegistered ==
    LET r == result[1] IN
    (/\ pc[1].op = "idle"
     /\ r.op = "login_user"
     /\ \A u \in pre.users : u.email = r.a.email => "password_hash" \in DOMAIN u
     /\ ~ \E u \in pre.users : u.email = r.a.email /\ Verifies(u, r.a.password)) =>
        /\ r.kind = "raise"
        /\ r.val = "ValueError: Invalid email or password"
        /\ users = pre.users

WrongPasswordForRegistered ==
    /\ pc[1].op = "idle"
    /\ result[1].op = "login_user"
    /\ result[1].kind = "raise"
    /\ \E u \in pre.users : u.email = result[1].a.email /\ "password_hash" \in DOMAIN u

\* the owner of the session document with this id, if there is one
OwnersOf(session_id) == {s.user_id : s \in {x \in sessions : x.session_id = session_id}}

\* C14: for two distinct anonymous ids calling create_session_smart,
\* add_message and get_user_sessions in any interleaving, no session_id is
\* returned by create_session_smart to both, every returned id names a
\* session of the caller, and get_user_sessions for the one never returns a
\* session the other owns.  (SpecTwo)
C14_AnonymousIdsIsolated ==
    /\ \A a, b \in AnonIds : a # b => handed[a] \cap handed[b] = {}
    /\ \A a \in AnonIds : \A sid \in handed[a] : OwnersOf(sid) \subseteq {a}
    /\ \A p \in Procs :
          (result[p].op = "get_user_sessions" /\ result[p].kind = "return") =>
              \A i \in 1..Len(result[p].val) :
                  OwnersOf(result[p].val[i].session_id) = {result[p].a.user_id}

C14_Witness ==
    /\ \A a \in AnonIds : handed[a] # {}
    /\ \E p \in Procs :
          /\ result[p].op = "get_user_sessions"
          /\ result[p].kind = "return"
          /\ Len(result[p].val) = 1
          /\ \E s \in sessions : s.user_id # result[p].a.user_id

\* C15: get_user_sessions for an id with the anonymous marker returns at most
\* one session, and that one has the greatest updated_at among the active
\* sessions of the id.  (SpecSeq)
C15_AnonymousListsMostRecent ==
    pc[1].op = "idle" =>
        \A u \in AnonIds : \A limit \in Limits :
            \A q \in get_user_sessions(u, limit) :
                /\ Len(q) <= 1
                /\ Len(q) = 1 =>
                       \A s \in ActiveSessionsOf(u) : q[1].updated_at[2] >= s.updated_at

\* What the code does keep of C15: at most one session, an active one of the
\* id, whatever the limit.  (SpecSeq)
AnonymousListsAtMostOne ==
    pc[1].op = "idle" =>
        \A u \in AnonIds : \A limit \in Limits :
            \A q \in get_user_sessions(u, limit) :
                /\ Len(q) <= 1
                /\ \A i \in 1..Len(q) : \E s \in ActiveSessionsOf(u) : q[i] = Summary(s)

Min(a, b) == IF a <= b THEN a ELSE b

\* q lists, by non-increasing updated_at, n distinct active sessions of u, none
\* of them older than an active session of u it leaves out
MostRecentOf(q, u, n) ==
    /\ Len(q) = n
    /\ \A i \in 1..Len(q) : \E s \in ActiveSessionsOf(u) : q[i] = Summary(s)
    /\ \A i, j \in 1..Len(q) :
          /\ i < j => q[i].updated_at[2] >= q[j].updated_at[2]
          /\ i # j => q[i].session_id # q[j].session_id
    /\ \A s \in ActiveSessionsOf(u) :
          (\A i \in 1..Len(q) : q[i].session_id # s.session_id) =>
              \A i \in 1..Len(q) : q[i].updated_at[2] >= s.updated_at

\* C16: get_user_sessions(owner, limit) for an owner without the anonymous
\* marker returns exactly the min(limit, number of active sessions of owner)
\* active sessions of owner with the greatest updated_at, by non-increasing
\* updated_at, and no session of another owner.  (SpecSeq)
C16_RegisteredListsMostRecent ==
    pc[1].op = "idle" =>
        \A u \in OtherIds : \A limit \in Limits :
            \A q \in get_user_sessions(u, limit) :
                MostRecentOf(q, u, Min(limit, Cardinality(ActiveSessionsOf(u))))

\* Where the code does what C16 says: a limit of at least 1; a limit of 0
\* returns every active session of the owner.  (SpecSeq)
RegisteredListsMostRecentOrAll ==
    pc[1].op = "idle" =>
        \A u \in OtherIds : \A limit \in Limits :
            \A q \in get_user_sessions(u, limit) :
                MostRecentOf(q, u, IF limit = 0 THEN Cardinality(ActiveSessionsOf(u))
                                   ELSE Min(limit, Cardinality(ActiveSessionsOf(u))))

TwoListedOfRegistered ==
    /\ pc[1].op = "idle"
    /\ \E u \in OtherIds : \E q \in get_user_sessions(u, MaxLimit) :
          Len(q) = 2 /\ q[1].updated_at[2] > q[2].updated_at[2]

\* q lists, by non-decreasing timestamp, n distinct messages of the session,
\* none of them later than a message of the session it leaves out
EarliestOf(q, session_id, n) ==
    /\ Len(q) = n
    /\ \A i \in 1..Len(q) : q[i] \in MessagesOf(session_id)
    /\ \A i, j \in 1..Len(q) :
          /\ i < j => q[i].timestamp <= q[j].timestamp
          /\ i # j => q[i] # q[j]
    /\ \A m \in MessagesOf(session_id) :
          (\A i \in 1..Len(q) : q[i] # m) =>
              \A i \in 1..Len(q) : q[i].timestamp <= m.timestamp

\* C17: whatever the interleaving of concurrent add_message calls, every
\* get_session_messages(session_id, limit) result is in non-decreasing
\* timestamp order, holds at most limit messages, and consists of the
\* messages of the session with the smallest timestamps present when the
\* query runs.  (Spec)
C17_ListsEarliestInOrder ==
    \A session_id \in IssuedSids : \A limit \in Limits :
        \A q \in get_session_messages(session_id, limit) :
            \E n \in 0..limit : EarliestOf(q, session_id, n)

\* Where the code does what C17 says: a limit of at least 1; a limit of 0
\* returns every message of the session.  (Spec)
ListsEarliestInOrderOrAll ==
    \A session_id \in IssuedSids : \A limit \in Limits :
        \A q \in get_session_messages(session_id, limit) :
            EarliestOf(q, session_id,
                       IF limit = 0 THEN Cardinality(MessagesOf(session_id))
                       ELSE Min(limit, Cardinality(MessagesOf(session_id))))

TwoListedWhileAppending ==
    /\ \E p \in Procs : pc[p].at = "add_message_update"
    /\ \E session_id \in IssuedSids : \E q \in get_session_messages(session_id, MaxLimit) :
          Len(q) = 2 /\ q[1].timestamp < q[2].timestamp

\* what replace_anonymous_session_content leaves behind for the owner of the
\* completed call r: the session reused and emptied, or one session inserted
ResetOutcome(r) ==
    LET had == {s \in pre.sessions : s.user_id = r.a.user_id /\ s.is_active} IN
    IF had # {}
    THEN /\ r.val \in SessionIds(had)
         /\ SessionIds(sessions) = SessionIds(pre.sessions)
         /\ Cardinality(sessions) = Cardinality(pre.sessions)
         /\ \A s \in sessions :
               IF s.session_id = r.val
               THEN s.message_count = 0 /\ s.title = "New Chat"
               ELSE s \in pre.sessions
         /\ messages = {m \in pre.messages : m.session_id # r.val}
    ELSE /\ pre.sessions \subseteq sessions
         /\ Cardinality(sessions \ pre.sessions) = 1
         /\ r.val \notin SessionIds(pre.sessions)
         /\ \A s \in sessions \ pre.sessions :
               s.session_id = r.val /\ s.user_id = r.a.user_id
         /\ messages = pre.messages

\* C18: create_session_smart(user_id), run alone, for an id without the
\* anonymous marker inserts one session, owned by user_id, under an id no
\* session had, and leaves every other session and every message as it was;
\* for an id with the marker it leaves what replace_anonymous_session_content
\* leaves.  (SpecSeq)
C18_SmartCreatesOrResets ==
    LET r == result[1] IN
    (pc[1].op = "idle" /\ r.op = "create_session_smart" /\ r.kind = "return") =>
        IF StartsWithAnon(r.a.user_id)
        THEN ResetOutcome(r)
        ELSE /\ pre.sessions \subseteq sessions
             /\ Cardinality(sessions \ pre.sessions) = 1
             /\ r.val \notin SessionIds(pre.sessions)
             /\ \A s \in sessions \ pre.sessions :
                   s.session_id = r.val /\ s.user_id = r.a.user_id
             /\ messages = pre.messages

\* a direct replace_anonymous_session_content call leaves the same
ResetLeavesResetOutcome ==
    LET r == result[1] IN
    (pc[1].op = "idle" /\ r.op = "replace_anonymous_session_content" /\ r.kind = "return") =>
        ResetOutcome(r)

C18_Witness ==
    /\ pc[1].op = "idle"
    /\ result[1].op = "create_session_smart"
    /\ result[1].kind = "return"
    /\ ~StartsWithAnon(result[1].a.user_id)
    /\ \E s \in pre.sessions : s.user_id = result[1].a.user_id
    /\ pre.messages # {}

SmartResetsAnonymous ==
    /\ pc[1].op = "idle"
    /\ result[1].op = "create_session_smart"
    /\ result[1].kind = "return"
    /\ StartsWithAnon(result[1].a.user_id)
    /\ \E m \in pre.messages : m.session_id = result[1].val

\* C19: a login_user call, run alone, whether it returns or raises, leaves
\* every session and message as it was, runs no migration, and changes at
\* most last_active of the user it returns; a register_user call runs the
\* migration once when anonymous_user_id is given and not at all otherwise.
\* (SpecReg)
C19_LoginNeverMigrates ==
    LET r == result[1] IN
    /\ (pc[1].op = "idle" /\ r.op = "login_user") =>
          /\ sessions = pre.sessions
          /\ messages = pre.messages
          /\ r.printed = <<>>
          /\ IF r.kind = "return"
             THEN \E u \in pre.users : \E t \in 0..MaxTime :
                      /\ u.user_id = r.val.user_id
                      /\ users = (pre.users \ {u}) \cup {[u EXCEPT !.last_active = t]}
             ELSE users = pre.users
    /\ (pc[1].op = "idle" /\ r.op = "register_user") =>
          /\ Len(r.printed) =
                 IF r.kind = "return" /\ r.a.anonymous_user_id # NoUser THEN 1 ELSE 0
          /\ (r.kind = "raise" \/ r.a.anonymous_user_id = NoUser) => sessions = pre.sessions
          /\ messages = pre.messages

C19_Witness ==
    /\ pc[1].op = "idle"
    /\ result[1].op = "login_user"
    /\ result[1].kind = "return"
    /\ users # pre.users
    /\ \E s \in pre.sessions : StartsWithAnon(s.user_id)

\* the request worker p is serving, or served last, is a chat prompt
InPrompt(p) ==
    pc[p].op = "make_prompt" \/ (pc[p].op = "idle" /\ result[p].op = "make_prompt")

PromptSession(p) == IF pc[p].op = "idle" THEN result[p].a.session_id ELSE pc[p].a.session_id

\* C20: in a chat prompt request the user message is inserted, and the session
\* patched, before the answer is asked for; the assistant message is inserted
\* only after the answer came back; a request inserts one user message and at
\* most one assistant message, exactly one when it returns; when the answer
\* fails the request ends with an error, the user message stays and no
\* assistant message was inserted.  (SpecPrompt)
C20_PromptAppendsAroundAnswer ==
    \A p \in Procs :
        InPrompt(p) =>
            LET T == trail[p] IN
            /\ Len(T) \in 1..3
            /\ T[1].e = "append"
            /\ T[1].message.type = "user"
            /\ T[1].message.session_id = PromptSession(p)
            /\ T[1].message \in messages
            /\ pc[p].at \in {"prompt_history", "prompt_answer"} => Len(T) = 1
            /\ Len(T) >= 2 => T[2].e = "answer"
            /\ Len(T) = 3 =>
                  /\ T[2].ok
                  /\ T[3].e = "append"
                  /\ T[3].message.type = "ai"
                  /\ T[3].message.session_id = PromptSession(p)
            /\ (Len(T) >= 2 /\ ~T[2].ok) =>
                  /\ Len(T) = 2
                  /\ pc[p].op = "idle"
                  /\ result[p].kind = "raise"
            /\ (pc[p].op = "idle" /\ result[p].kind = "return") => Len(T) = 3
            /\ (pc[p].op = "idle" /\ result[p].kind = "raise") => Len(T) = 2 /\ ~T[2].ok

\* the answer failed: the user message is there, the session counts it, and
\* the session holds no assistant message
C20_Witness ==
    \E p \in Procs :
        /\ pc[p].op = "idle"
        /\ result[p].op = "make_prompt"
        /\ result[p].kind = "raise"
        /\ trail[p][1].message \in messages
        /\ \A m \in MessagesOf(result[p].a.session_id) : m.type = "user"
        /\ \E s \in sessions :
              s.session_id = result[p].a.session_id /\ s.message_count = 1

PromptAnswered ==
    \E p \in Procs :
        /\ pc[p].op = "idle"
        /\ result[p].op = "make_prompt"
        /\ result[p].kind = "return"
        /\ Len(trail[p]) = 3

\* no call is in flight
Quiescent == \A p \in Procs : pc[p].op = "idle"

\* C21: with only add_message calls running on existing sessions, in any
\* interleaving, once every call has completed each session's message_count
\* is the number of add_message calls made on it (one message each), which
\* is the number of its messages: no increment is lost.  (SpecAppend)
C21_NoLostIncrement ==
    Quiescent =>
        /\ \A s \in sessions : s.message_count = Cardinality(MessagesOf(s.session_id))
        /\ Cardinality(messages) = nextMid - 1
        /\ \A m \in messages : m.session_id \in SessionIds(sessions)

\* two appends on one session, each done by a different worker
C21_Witness ==
    /\ Quiescent
    /\ \A p \in Procs : result[p].op = "add_message" /\ result[p].kind = "return"
    /\ result[1].a.session_id = result[2].a.session_id
    /\ result[1].val # result[2].val
    /\ \E s \in sessions : s.session_id = result[1].a.session_id /\ s.message_count = 2

\* the session is gone while a message of it is left
Orphaned(ss, ms, session_id) ==
    /\ session_id \notin SessionIds(ss)
    /\ \E m \in ms : m.session_id = session_id

\* the step belongs to a delete_session call of the sequential worker
DeleteStep ==
    \/ pc[1].op = "delete_session"
    \/ pc[1].op = "idle" /\ pc'[1].op = "delete_session"
    \/ pc[1].op = "idle" /\ pc'[1].op = "idle" /\ result'[1].op = "delete_session"
         /\ result' # result

DeleteStepSession ==
    IF pc'[1].op = "idle" THEN result'[1].a.session_id ELSE pc'[1].a.session_id

\* C22: delete_session removes the messages before the session document.
\* No step of a delete_session(S) call, a step at which the store fails
\* included, leads to a state where S is gone while a message of S is left
\* unless that was so before the step; a call stopped by a store failure
\* leaves a session S that existed in place, with its messages either all
\* there or all gone; and a delete_session(S) that runs to its end on an
\* existing S, with or without messages, removes S and returns True.
\* (SpecFail)
C22_DeleteMessagesFirst ==
    /\ [][DeleteStep =>
             (Orphaned(sessions', messages', DeleteStepSession)
                 => Orphaned(sessions, messages, DeleteStepSession))]_vars
    /\ [](LET r == result[1] IN
          (pc[1].op = "idle" /\ r.op = "delete_session"
               /\ r.a.session_id \in SessionIds(pre.sessions))
          => IF pre.failed
             THEN /\ sessions = pre.sessions
                  /\ MessagesOf(r.a.session_id)
                        \in {{}, {m \in pre.messages : m.session_id = r.a.session_id}}
                  /\ r.kind = "return" /\ r.val = FALSE
             ELSE /\ r.kind = "return" /\ r.val = TRUE
                  /\ r.a.session_id \notin SessionIds(sessions)
                  /\ MessagesOf(r.a.session_id) = {})

\* delete_session run again on a session whose messages are already gone
\* but whose counter still tells of them
C22_Witness ==
    /\ pc[1].op = "idle"
    /\ ~pre.failed
    /\ result[1].op = "delete_session"
    /\ result[1].kind = "return"
    /\ result[1].val = TRUE
    /\ \E s \in pre.sessions :
          /\ s.session_id = result[1].a.session_id
          /\ s.message_count > 0
          /\ \A m \in pre.messages : m.session_id # s.session_id
    /\ result[1].a.session_id \notin SessionIds(sessions)

\* the handler the sequential worker's step belongs to
StepOp ==
    IF pc[1].op # "idle" THEN pc[1].op
    ELSE IF pc'[1].op # "idle" THEN pc'[1].op ELSE result'[1].op

\* C23: when migrate_anonymous_sessions(anon_id, new_id), run alone, has
\* returned, the sessions are those of before the call with user_id set to
\* new_id on the ones anon_id owned and every other field, and every other
\* session, as it was; messages and users are as they were.  In every step
\* of every handler a message that stays keeps all its fields; messages are
\* added only by add_message, one per step, and removed only by
\* delete_session and by the reset of an anonymous session.  (SpecSeq)
C23_MigrateTouchesOwnerOnly ==
    /\ [](LET r == result[1] IN
          (pc[1].op = "idle" /\ r.op = "migrate_anonymous_sessions" /\ r.kind = "return")
          => /\ sessions =
                   {IF s.user_id = r.a.anonymous_user_id
                    THEN [s EXCEPT !.user_id = r.a.new_user_id]
                    ELSE s : s \in pre.sessions}
             /\ messages = pre.messages
             /\ users = pre.users)
    /\ [][/\ \A m \in messages : \A m2 \in messages' :
                m.message_id = m2.message_id => m = m2
          /\ messages' \ messages # {}
                => StepOp = "add_message" /\ Cardinality(messages' \ messages) = 1
          /\ messages \ messages' # {}
                => StepOp \in {"delete_session", "create_session_smart",
                               "replace_anonymous_session_content"}]_vars

\* a migration that moved a session with a message and an older stamp while
\* a session the anonymous id does not own stood by
C23_Witness ==
    /\ pc[1].op = "idle"
    /\ result[1].op = "migrate_anonymous_sessions"
    /\ result[1].kind = "return"
    /\ \E s \in pre.sessions :
          /\ s.user_id = result[1].a.anonymous_user_id
          /\ s.message_count > 0
          /\ s.updated_at < now
          /\ MessagesOf(s.session_id) # {}
    /\ \E s \in pre.sessions : s.user_id # result[1].a.anonymous_user_id

\* C24: whatever the interleaving of add_message calls and resets
\* (create_session_smart on an anonymous id that owns a session) on one
\* anonymous session, once every call has completed the session's
\* message_count is the number of its messages.  (SpecTwo)
C24_CountAgreesAfterAppendResetRace ==
    Quiescent =>
        \A s \in sessions :
            StartsWithAnon(s.user_id)
                => s.message_count = Cardinality(MessagesOf(s.session_id))

\* C25: in every reachable state, whatever the interleaving of add_message,
\* delete_session and resets, and with add_message also called on the id of
\* a session already deleted, every message's session_id is the session_id
\* of a session that exists.  (Spec)
C25_MessagesReferToSessions ==
    \A m \in messages : m.session_id \in SessionIds(sessions)

\* C26: a session whose user_id does not carry the anonymous marker keeps
\* that user_id in every step: register_user, whatever anonymous_user_id it
\* is given, moves only sessions whose user_id starts with "anon_".
\* (SpecTakeover)
C26_RegisteredOwnerNeverChanges ==
    [][\A s \in sessions : \A s2 \in sessions' :
           (s.session_id = s2.session_id /\ ~StartsWithAnon(s.user_id))
               => s2.user_id = s.user_id]_vars

\* C27: in every reachable state every session document has is_active true.
\* A session that matches the filter of get_user_sessions for an owner
\* (user_id and is_active) stops matching it in a step only when the step is
\* the delete_one of a delete_session on it, which removes the document, or
\* an update of migrate_anonymous_sessions, which changes its user_id.
\* (Spec)
C27_AlwaysActive ==
    /\ [](\A s \in sessions : s.is_active = TRUE)
    /\ [][\A s \in sessions :
             (\A s2 \in sessions' :
                  s2.session_id = s.session_id
                      => (s2.user_id # s.user_id \/ s2.is_active # s.is_active))
             => \/ /\ s.session_id \notin SessionIds(sessions')
                   /\ \E p \in Procs :
                         /\ pc[p].at = "delete_session_doc"
                         /\ pc[p].a.session_id = s.session_id
                         /\ pc'[p].op = "idle"
                \/ /\ \E s2 \in sessions' :
                         /\ s2.session_id = s.session_id
                         /\ s2.user_id # s.user_id
                         /\ s2.is_active
                   /\ \E p \in Procs :
                         /\ pc[p].at = "migrate_update"
                         /\ pc[p].l.anonymous_user_id = s.user_id]_vars

\* one session hard-deleted, another reparented and still listed for its
\* new owner
C27_Witness ==
    /\ \E p \in Procs :
          /\ result[p].op = "delete_session"
          /\ result[p].kind = "return"
          /\ result[p].val = TRUE
    /\ \E u \in OtherIds : ActiveSessionsOf(u) # {}

\* C28: once register_user, called with an anonymous_user_id, has inserted
\* its user document while that anonymous id owns sessions, a state follows
\* in which the anonymous id owns none, also when the request ends between
\* the insert and the migration and the client sends the same registration
\* again and logs in.  (SpecRetry)
C28_RegisteredEventuallyMigrated ==
    (users # {} /\ \E s \in sessions : s.user_id = <<"anon_", 1>>)
        ~> (\A s \in sessions : s.user_id # <<"anon_", 1>>)

====
